---- MODULE Spec2Model ----
(***************************************************************************)
(* Model of the missing-values visualisation library:                      *)
(*   viz_lib/visualizations.py  Visualizations (base class)                *)
(*   viz_lib/missing_values.py  MissingValues, its generate() and heatmap  *)
(*   viz_lib/__init__.py        generate(df, output_path)                  *)
(*   main.py                    generate_visualizations(...)               *)
(*                                                                         *)
(* Strings that the code takes apart or builds (paths) are sequences of    *)
(* tokens, "/" being the separator.  Optional values (Python None, an      *)
(* unbound local) are sequences of length 0 or 1.                          *)
(***************************************************************************)
EXTENDS Integers, Sequences, FiniteSets, TLC

\* ---------------------------------------------------------------- bounds
MaxRows == 1        \* rows of a data table
MaxFigs == 2        \* open pyplot figures after which no further call is started

\* ------------------------------------------------------------ data tables
ColumnLabels == <<"a", "b">>
NaN == "NaN"
CellValues == {NaN, "1"}

Tables ==
    UNION { { [columns |-> SubSeq(ColumnLabels, 1, c), rows |-> rs] :
                rs \in [1..r -> [1..c -> CellValues]] } :
            r \in 0..MaxRows, c \in 0..Len(ColumnLabels) }

\* (mutant) DataFrame.notnull() in place of isnull()
notnull(df) ==
    [columns |-> df.columns,
     rows    |-> [r \in 1..Len(df.rows) |->
                    [c \in 1..Len(df.columns) |-> df.rows[r][c] # NaN]]]

\* DataFrame.isnull(): same labels, same shape, True exactly where the cell is null
isnull(df) ==
    [columns |-> df.columns,
     rows    |-> [r \in 1..Len(df.rows) |->
                    [c \in 1..Len(df.columns) |-> df.rows[r][c] = NaN]]]

\* a frame with no row or no column has no cell
IsEmpty(m) == Len(m.rows) = 0 \/ Len(m.columns) = 0

\* ------------------------------------------------------------------ paths
Sep == "/"
FileName == <<"missing_values_heatmap.png">>
OutputPaths == { <<"d">>, <<"d", Sep>> }

Last(s) == s[Len(s)]

\* os.path.join(a, b) of posixpath
join(a, b) ==
    IF b # <<>> /\ b[1] = Sep THEN b
    ELSE IF a = <<>> \/ Last(a) = Sep THEN a \o b
    ELSE a \o <<Sep>> \o b

\* the components of a relative path: separators only separate
Components(path) == SelectSeq(path, LAMBDA x : x # Sep)

\* ----------------------------------------------------- output file system
\* "d" is a directory below the working directory; the working directory
\* itself, ".", is not among the directories whose state the model follows.
Dirs == {"d"}
\* missing: no such directory; denied: it exists and opening a file in it for
\* writing is refused; rw: it exists and files in it can be written.
Modes == {"missing", "denied", "rw"}

\* the directory and the file name a relative path names
Resolve(path) ==
    LET cs == Components(path)
    IN  IF Len(cs) = 1 THEN <<".", cs[1]>>
        ELSE IF Len(cs) = 2 THEN <<cs[1], cs[2]>>
        ELSE <<"nowhere", "">>

\* (mutant) savefig that leaves a file that is already there as it is
savefig_keep(files, dirs, path, picture) ==
    LET loc == Resolve(path)
    IN  IF loc[1] \notin Dirs \/ dirs[loc[1]] = "missing"
        THEN [raised |-> <<"FileNotFoundError">>, files |-> files, written |-> <<>>]
        ELSE IF dirs[loc[1]] = "denied"
        THEN [raised |-> <<"PermissionError">>, files |-> files, written |-> <<>>]
        ELSE [raised |-> <<>>,
              files |-> [l \in DOMAIN files \cup {loc} |->
                            IF l \in DOMAIN files THEN files[l] ELSE picture],
              written |-> <<loc>>]

\* pyplot.savefig(path): open the target for writing and write the picture.
\* Raises when the directory is missing or refuses the open; nothing is
\* written then, and what was there before stays.
savefig(files, dirs, path, picture) ==
    LET loc == Resolve(path)
    IN  IF loc[1] \notin Dirs \/ dirs[loc[1]] = "missing"
        THEN [raised |-> <<"FileNotFoundError">>, files |-> files, written |-> <<>>]
        ELSE IF dirs[loc[1]] = "denied"
        THEN [raised |-> <<"PermissionError">>, files |-> files, written |-> <<>>]
        ELSE [raised |-> <<>>,
              files |-> [l \in DOMAIN files \cup {loc} |->
                            IF l = loc THEN picture ELSE files[l]],
              written |-> <<loc>>]

\* ------------------------------------------------------- viz_lib classes
\* Visualizations.__init__(df, output_path, dimensions=(10, 6))
Visualizations(df, output_path, dimensions) ==
    [df |-> df, output_path |-> output_path, dimensions |-> dimensions]

DefaultDimensions == <<10, 6>>

\* MissingValues.__init__(df, output_path): super().__init__ without dimensions
MissingValues(df, output_path) == Visualizations(df, output_path, DefaultDimensions)

\* MissingValues._missing_values_heatmap(): the statements in order; an
\* exception leaves the statements after it undone.
missing_values_heatmap(self, files, dirs, figs) ==
    LET missing     == isnull(self.df)
        opened      == figs + 1                       \* plt.figure(figsize=...)
        output_file == join(self.output_path, FileName)
        picture     == [matrix |-> missing, figsize |-> self.dimensions]
        sv          == savefig(files, dirs, output_file, picture)
        base        == [raised |-> <<>>, origin |-> "", value |-> <<>>,
                        self |-> self, files |-> files, figs |-> opened,
                        matrix |-> <<missing>>, figsize |-> <<self.dimensions>>,
                        saved |-> <<>>, written |-> <<>>]
    IN  IF IsEmpty(missing)                           \* sns.heatmap raises
        THEN [base EXCEPT !.raised = <<"ValueError">>, !.origin = "heatmap"]
        ELSE IF sv.raised # <<>>                      \* plt.savefig raises
        THEN [base EXCEPT !.raised = sv.raised, !.origin = "savefig",
                          !.files = sv.files, !.saved = <<output_file>>,
                          !.written = sv.written]
        ELSE [base EXCEPT !.value = <<output_file>>,
                          !.files = sv.files, !.saved = <<output_file>>,
                          !.written = sv.written,
                          !.figs = opened - 1]        \* plt.close()

\* (mutant) generate() reporting the output directory instead of the file
MissingValues_generate_dir(self, files, dirs, figs) ==
    LET h == missing_values_heatmap(self, files, dirs, figs)
    IN  IF h.raised # <<>> THEN h
        ELSE [h EXCEPT !.value = << [missing_values_heatmap |-> self.output_path] >>]

\* (mutant) generate() keeping the file path in self.output_path
MissingValues_generate_rebinding(self, files, dirs, figs) ==
    LET h == missing_values_heatmap(self, files, dirs, figs)
    IN  IF h.raised # <<>> THEN h
        ELSE [h EXCEPT !.value = << [missing_values_heatmap |-> h.value[1]] >>,
                       !.self.output_path = h.value[1]]

\* MissingValues.generate()
MissingValues_generate(self, files, dirs, figs) ==
    LET h == missing_values_heatmap(self, files, dirs, figs)
    IN  IF h.raised # <<>> THEN h
        ELSE [h EXCEPT !.value = << [missing_values_heatmap |-> h.value[1]] >>]

\* --------------------------------------------------------- dataset files
\* The dataset paths of the model and what each names on disk: nothing, a
\* directory, or a regular file written in one of the three formats.  A file
\* holds <<t>> when it encodes table t in its format and <<>> when its bytes
\* are no valid encoding.
Formats == {"csv", "tsv", "parquet"}
FileTypes == Formats \cup {"xlsx"}

\* the table a,b / 1, / ,2 : two rows, two columns, nulls at (1,2) and (2,1)
ScenarioTable ==
    [columns |-> <<"a", "b">>, rows |-> << <<"1", NaN>>, <<NaN, "2">> >>]
\* a header line and no row
HeaderOnly == [columns |-> <<"a", "b">>, rows |-> <<>>]

Disk ==
    [nofile      |-> [kind |-> "missing", content |-> <<>>],
     adir        |-> [kind |-> "dir",     content |-> <<>>],
     t_csv       |-> [kind |-> "csv",     content |-> <<ScenarioTable>>],
     t_tsv       |-> [kind |-> "tsv",     content |-> <<ScenarioTable>>],
     t_parquet   |-> [kind |-> "parquet", content |-> <<ScenarioTable>>],
     empty_csv   |-> [kind |-> "csv",     content |-> <<HeaderOnly>>],
     bad_parquet |-> [kind |-> "parquet", content |-> <<>>]]

DatasetPaths == DOMAIN Disk

\* (mutant) os.path.exists(path) in place of isfile
exists(p) == Disk[p].kind # "missing"

\* os.path.isfile(path): an existing regular file
isfile(p) == Disk[p].kind \in Formats

\* A delimited text file split on the other delimiter: every line is one
\* field, so one column of non-null raw text (a one-column file has no
\* delimiter and reads the same either way).
OneColumn(t) ==
    IF Len(t.columns) <= 1 THEN t
    ELSE [columns |-> <<t.columns[1]>>,
          rows    |-> [r \in 1..Len(t.rows) |-> <<"1">>]]

\* pandas.read_csv(path, sep=sep) on a file of the given format and content
read_csv(format, content, sep) ==
    IF format = "parquet" \/ content = <<>>
    THEN [raised |-> <<"DecodeError">>, df |-> <<>>]
    ELSE IF (format = "csv" /\ sep = ",") \/ (format = "tsv" /\ sep = "\t")
    THEN [raised |-> <<>>, df |-> content]
    ELSE [raised |-> <<>>, df |-> <<OneColumn(content[1])>>]

\* pandas.read_parquet(path)
read_parquet(format, content) ==
    IF format = "parquet" /\ content # <<>>
    THEN [raised |-> <<>>, df |-> content]
    ELSE [raised |-> <<"DecodeError">>, df |-> <<>>]

\* ------------------------------------------------------------ orchestrator
\* the outcome of a call in which nothing has happened yet
Nothing(files, figs) ==
    [raised |-> <<>>, origin |-> "", value |-> <<>>, self |-> <<>>,
     files |-> files, figs |-> figs,
     matrix |-> <<>>, figsize |-> <<>>, saved |-> <<>>, written |-> <<>>,
     loaders |-> <<>>, constructed |-> <<>>]

\* (mutant) generate returning the visualization's record unwrapped
generate_flat(df, output_path, files, dirs, figs) ==
    LET self == MissingValues(df, output_path)
        g    == MissingValues_generate(self, files, dirs, figs)
    IN  [loaders |-> <<>>, constructed |-> <<self>>] @@ g

\* (mutant) generate wrapping a failure in an error of its own
generate_wrapping(df, output_path, files, dirs, figs) ==
    LET self == MissingValues(df, output_path)
        g    == MissingValues_generate(self, files, dirs, figs)
        out  == [loaders |-> <<>>, constructed |-> <<self>>] @@ g
    IN  IF g.raised # <<>> THEN [out EXCEPT !.raised = <<"RuntimeError">>]
        ELSE [out EXCEPT !.value = << [missing_values |-> g.value[1]] >>]

\* viz_lib.generate(df, output_path)
generate(df, output_path, files, dirs, figs) ==
    LET self == MissingValues(df, output_path)
        g    == MissingValues_generate(self, files, dirs, figs)
        out  == [loaders |-> <<>>, constructed |-> <<self>>] @@ g
    IN  IF g.raised # <<>> THEN out
        ELSE [out EXCEPT !.value = << [missing_values |-> g.value[1]] >>]

\* (mutant) a match statement with a default case that reads the file as csv
load_default(file_type, format, content) ==
    CASE file_type = "tsv" ->
           [loaders |-> <<"read_csv">>] @@ read_csv(format, content, "\t")
      [] file_type = "parquet" ->
           [loaders |-> <<"read_parquet">>] @@ read_parquet(format, content)
      [] OTHER ->
           [loaders |-> <<"read_csv">>] @@ read_csv(format, content, ",")

\* the match statement of generate_visualizations: which loader runs, and
\* what df is bound to afterwards (<<>>: no case matched, df is unbound)
load(file_type, format, content) ==
    CASE file_type = "csv" ->
           [loaders |-> <<"read_csv">>] @@ read_csv(format, content, ",")
      [] file_type = "tsv" ->
           [loaders |-> <<"read_csv">>] @@ read_csv(format, content, "\t")
      [] file_type = "parquet" ->
           [loaders |-> <<"read_parquet">>] @@ read_parquet(format, content)
      [] OTHER ->
           [loaders |-> <<>>, raised |-> <<>>, df |-> <<>>]

\* main.generate_visualizations(dataset_path, file_type, output_path)
generate_visualizations(dataset_path, file_type, output_path, files, dirs, figs) ==
    LET ld == load(file_type, Disk[dataset_path].kind, Disk[dataset_path].content)
        g  == generate(ld.df[1], output_path, files, dirs, figs)
    IN  IF ~ isfile(dataset_path)
        THEN [Nothing(files, figs) EXCEPT !.raised = <<"FileNotFoundError">>,
                                          !.origin = "isfile"]
        ELSE IF ld.raised # <<>>
        THEN [Nothing(files, figs) EXCEPT !.raised = ld.raised, !.origin = "loader",
                                          !.loaders = ld.loaders]
        ELSE IF ld.df = <<>>                  \* reading the unbound local df
        THEN [Nothing(files, figs) EXCEPT !.raised = <<"UnboundLocalError">>,
                                          !.origin = "df"]
        ELSE [g EXCEPT !.loaders = ld.loaders]

\* ------------------------------------------------------------------ state
VARIABLES
    dirs,     \* mode of each output directory
    files,    \* the files in the output directories: <<dir, name>> -> picture
    figs,     \* number of open pyplot figures
    mv,       \* <<the MissingValues instance of the client>>, or <<>>
    call,     \* the library call that has just ended: what it did, how it ended
    made,     \* history: mv as its constructor left it
    returned  \* history: per output directory, the paths that the first and
              \*          the latest mv.generate() that returned have returned

vars == <<dirs, files, figs, mv, call, made, returned>>

NoFiles == [l \in {} |-> 0]

\* the record of a call: its arguments and its outcome, without the state it
\* leaves behind
Record(op, args, out, before) ==
    [op |-> op, args |-> args, raised |-> out.raised, origin |-> out.origin,
     value |-> out.value, matrix |-> out.matrix, figsize |-> out.figsize,
     saved |-> out.saved, written |-> out.written, loaders |-> out.loaders,
     constructed |-> Len(out.constructed), figs_before |-> before]

\* no library call has just ended
Idle == Record("none", <<>>, Nothing(NoFiles, 0), 0)

\* returned after a call: the first path stays, the latest is replaced
Remember(out) ==
    IF out.raised # <<>> THEN returned
    ELSE [returned EXCEPT ![out.written[1][1]] =
            IF @ = <<>> THEN <<out.value[1].missing_values_heatmap>>
            ELSE <<@[1], out.value[1].missing_values_heatmap>>]

Init ==
    /\ dirs \in [Dirs -> Modes]
    /\ files = NoFiles
    /\ figs = 0
    /\ mv = <<>>
    /\ call = Idle
    /\ made = <<>>
    /\ returned = [d \in Dirs |-> <<>>]

\* mv = MissingValues(df=df, output_path=output_path)
Construct(df, output_path) ==
    /\ mv' = <<MissingValues(df, output_path)>>
    /\ made' = mv'
    /\ call' = Record("MissingValues", <<output_path>>,
                      [Nothing(files, figs) EXCEPT !.constructed = mv'], figs)
    /\ UNCHANGED <<dirs, files, figs, returned>>

\* mv.generate()
Generate ==
    /\ mv # <<>>
    /\ figs < MaxFigs
    /\ LET out == [loaders |-> <<>>, constructed |-> <<>>]
                    @@ MissingValues_generate(mv[1], files, dirs, figs)
       IN  /\ files' = out.files
           /\ figs' = out.figs
           /\ mv' = <<out.self>>
           /\ call' = Record("MissingValues.generate", <<mv[1].output_path>>,
                             out, figs)
           /\ returned' = Remember(out)
    /\ UNCHANGED <<dirs, made>>

\* generate_visualizations(dataset_path, file_type, output_path)
GenerateVisualizations(dataset_path, file_type, output_path) ==
    /\ figs < MaxFigs
    /\ LET out == generate_visualizations(dataset_path, file_type, output_path,
                                          files, dirs, figs)
       IN  /\ files' = out.files
           /\ figs' = out.figs
           /\ call' = Record("generate_visualizations",
                             <<dataset_path, file_type, output_path>>, out, figs)
    \* the instance generate() constructs is local to the call
    /\ UNCHANGED <<dirs, mv, made, returned>>

\* the environment creates an output directory, empty
MkDir(d) ==
    /\ dirs[d] = "missing"
    /\ dirs' = [dirs EXCEPT ![d] = "rw"]
    /\ call' = Idle
    /\ UNCHANGED <<files, figs, mv, made, returned>>

\* the environment removes an output directory and what it holds
RmDir(d) ==
    /\ dirs[d] # "missing"
    /\ dirs' = [dirs EXCEPT ![d] = "missing"]
    /\ files' = [l \in {k \in DOMAIN files : k[1] # d} |-> files[l]]
    /\ call' = Idle
    /\ UNCHANGED <<figs, mv, made, returned>>

\* the environment changes the permissions of an output directory
Chmod(d, mode) ==
    /\ dirs[d] # "missing"
    /\ mode \in {"denied", "rw"} \ {dirs[d]}
    /\ dirs' = [dirs EXCEPT ![d] = mode]
    /\ call' = Idle
    /\ UNCHANGED <<files, figs, mv, made, returned>>

Environment ==
    \/ \E d \in Dirs : MkDir(d)
    \/ \E d \in Dirs : RmDir(d)
    \/ \E d \in Dirs, m \in Modes : Chmod(d, m)

\* a client of the MissingValues class
Next ==
    \/ \E df \in Tables, o \in OutputPaths : Construct(df, o)
    \/ Generate
    \/ Environment

Spec == Init /\ [][Next]_vars

\* a client of generate_visualizations
NextMain ==
    \/ \E p \in DatasetPaths, t \in FileTypes, o \in OutputPaths :
         GenerateVisualizations(p, t, o)
    \/ Environment

SpecMain == Init /\ [][NextMain]_vars

\* ----------------------------------------------------------------- claims
IsGen == call.op = "MissingValues.generate"
IsMain == call.op = "generate_visualizations"
Returned == call.raised = <<>>

\* <output_path>/missing_values_heatmap.png, character by character
HeatmapAt(output_path) == output_path \o <<Sep>> \o FileName

\* C1: a generate() that returns has written exactly one file, the file
\* <output_path>/missing_values_heatmap.png, and the string under
\* "missing_values_heatmap" in its result is the path it passed to savefig.
C1_OneFileAtReturnedPath ==
    (IsGen /\ Returned) =>
        /\ Len(call.written) = 1
        /\ call.written[1] = Resolve(HeatmapAt(call.args[1]))
        /\ call.written[1] \in DOMAIN files
        /\ call.saved = <<join(call.args[1], FileName)>>
        /\ call.value = << [missing_values_heatmap |-> call.saved[1]] >>

C1_Witness ==
    /\ IsGen /\ Returned
    /\ call.args[1] = <<"d", Sep>>
    /\ call.written = << <<"d", FileName[1]>> >>

\* C3: a generate() that reaches the save step leaves as many figures open as
\* it found: the figure it opened is closed whether savefig returned or raised.
C3_FigureReleasedAfterSave ==
    (IsGen /\ call.saved # <<>>) => figs = call.figs_before

\* C4: the save step is all or nothing: it succeeds, the file exists and its
\* path is returned; or it raises, nothing is returned and no file is at the
\* path afterwards.
C4_SaveAllOrNothing ==
    (IsGen /\ call.saved # <<>>) =>
        \/ /\ Returned
           /\ Resolve(call.saved[1]) \in DOMAIN files
           /\ call.value = << [missing_values_heatmap |-> call.saved[1]] >>
        \/ /\ ~ Returned
           /\ call.value = <<>>
           /\ Resolve(call.saved[1]) \notin DOMAIN files

\* C5: the latest generate() into an output directory returns the path the
\* first one returned, and when it returns the directory holds one file, the
\* heatmap, which is the picture this call rendered.
C5_SecondCallOverwrites ==
    /\ \A d \in Dirs :
          Len(returned[d]) = 2 => returned[d][2] = returned[d][1]
    /\ (IsGen /\ Returned) =>
          LET loc == Resolve(HeatmapAt(call.args[1]))
              ret == returned[loc[1]]
          IN  /\ ret # <<>>
              /\ ret[Len(ret)] = call.value[1].missing_values_heatmap
              /\ {l \in DOMAIN files : l[1] = loc[1]} = {loc}
              /\ files[loc].matrix = call.matrix[1]

C5_Witness ==
    /\ IsGen /\ Returned
    /\ Len(returned["d"]) = 2
    /\ call.args[1] = <<"d", Sep>>

\* C7: the matrix generate() renders has the labels and the shape of the data
\* table and is true exactly at the null cells; it is the matrix of the
\* picture a returning call has saved.
C7_MatrixMarksNullCells ==
    IsGen =>
        /\ Len(call.matrix) = 1
        /\ LET m  == call.matrix[1]
               df == mv[1].df
           IN  /\ m.columns = df.columns
               /\ Len(m.rows) = Len(df.rows)
               /\ \A r \in 1..Len(df.rows) :
                     /\ Len(m.rows[r]) = Len(df.columns)
                     /\ \A c \in 1..Len(df.columns) :
                           m.rows[r][c] <=> (df.rows[r][c] = NaN)
               /\ Returned => files[Resolve(call.saved[1])].matrix = m

C7_Witness ==
    /\ IsGen /\ Returned
    /\ \E r \in 1..Len(call.matrix[1].rows) :
          \E c1, c2 \in 1..Len(call.matrix[1].columns) :
             call.matrix[1].rows[r][c1] /\ ~ call.matrix[1].rows[r][c2]

\* C10: generate() leaves the instance as its constructor made it, the figure
\* size of an instance is (10, 6), and every heatmap is rendered at (10, 6).
C10_InstanceUnchanged ==
    /\ mv = made
    /\ mv # <<>> => mv[1].dimensions = <<10, 6>>
    /\ IsGen => call.figsize = << <<10, 6>> >>
    /\ (IsGen /\ Returned) => files[Resolve(call.saved[1])].figsize = <<10, 6>>

C10_Witness ==
    /\ IsGen /\ Returned
    /\ Len(returned["d"]) = 2
    /\ mv = made

\* C2: generate_visualizations on a dataset_path that names no regular file
\* raises FileNotFoundError and has invoked no loader, constructed no
\* visualization, opened no figure and written no file.
C2_MissingDatasetFailsFirst ==
    (IsMain /\ Disk[call.args[1]].kind \notin Formats) =>
        /\ call.raised = <<"FileNotFoundError">>
        /\ call.origin = "isfile"
        /\ call.loaders = <<>>
        /\ call.constructed = 0
        /\ call.matrix = <<>>
        /\ call.saved = <<>>
        /\ call.written = <<>>
        /\ figs = call.figs_before

C2_Witness ==
    /\ IsMain
    /\ call.args[1] = "adir"
    /\ call.raised = <<"FileNotFoundError">>

\* C6: a generate_visualizations that returns, on a file whose content matches
\* file_type, returns {"missing_values": {"missing_values_heatmap": p}} with p
\* the output_path joined with the file name, which names the file
\* <output_path>/missing_values_heatmap.png, and that file exists.
C6_ResultRecord ==
    (/\ IsMain /\ Returned
     /\ Disk[call.args[1]].kind = call.args[2]
     /\ Disk[call.args[1]].content # <<>>) =>
        /\ call.value = << [missing_values |->
                             [missing_values_heatmap |->
                                join(call.args[3], FileName)]] >>
        /\ Resolve(join(call.args[3], FileName)) = Resolve(HeatmapAt(call.args[3]))
        /\ Resolve(HeatmapAt(call.args[3])) \in DOMAIN files

C6_Witness ==
    /\ IsMain /\ Returned
    /\ call.args = <<"t_tsv", "tsv", <<"d", Sep>> >>

C9_UnknownTypeUnbound ==
    (IsMain /\ Disk[call.args[1]].kind \in Formats /\ call.args[2] \notin Formats) =>
        /\ call.loaders = <<>>
        /\ call.raised = <<"UnboundLocalError">>
        /\ call.origin = "df"
        /\ call.value = <<>>
        /\ call.constructed = 0
        /\ call.saved = <<>>
        /\ call.written = <<>>
        /\ figs = call.figs_before

C9_Witness ==
    /\ IsMain
    /\ call.args[1] = "t_csv" /\ call.args[2] = "xlsx"
    /\ call.raised = <<"UnboundLocalError">>

====
